---- MODULE Spec2Model ----
(***************************************************************************)
(* FoodieBot (src/foodbot.py): the interest-score heuristic, the product   *)
(* store (seeding and recommendation), the in-memory fallback branch and   *)
(* the Streamlit script run, as state machines.                            *)
(*                                                                         *)
(* Conventions.  Python text is a TLA+ string.  An Optional value is a     *)
(* sequence of length 0 (None) or 1.  Money is counted in cents, so the    *)
(* float 9.99 is 999 and the budget float(N) is 100 * N.                   *)
(***************************************************************************)
EXTENDS Integers, Sequences, FiniteSets, TLC

VARIABLES
    user_input,     \* the text handed to calculate_interest / the text box
    score,          \* Optional: the value calculate_interest returned
    products,       \* the list of product dicts (generate_products / the caller's items)
    table,          \* the rows of the products table, in rowid order
    intent,         \* [mood, budget, category, keywords] of one recommendation
    recsDb,         \* Optional: what db.recommend_products returned
    recsFb,         \* Optional: what the fallback branch computed
    lastCall,       \* Optional: the latest populate_products_safe call [items, before, result]
    prevCall,       \* Optional: the call before it [items, result]
    pc,             \* where the current script run stands
    ns,             \* the names the run has bound: db, db_status["ok"], products, FALLBACK_PRODUCTS_DF
    chat_history,   \* st.session_state.chat_history
    conversations,  \* the rows of the conversations table
    printed,        \* what the process printed
    displayed,      \* the chat history as last rendered
    clicked,        \* the sidebar button whose click started the run ("" for none)
    shown,          \* the sidebar button the last run rendered ("" for none)
    logOutcome,     \* "" / "ok" / "failed": what the insert of log_conversation did in this run
    runs,           \* reruns since the page was loaded
    submitted       \* non-empty messages the user has submitted

interestVars == <<user_input, score>>
recVars == <<products, table, intent, recsDb, recsFb>>
seedVars == <<lastCall, prevCall>>
appVars == <<pc, ns, chat_history, conversations, printed, displayed, clicked, shown, logOutcome, runs, submitted>>
vars == <<user_input, score, products, table, intent, recsDb, recsFb, lastCall, prevCall,
          pc, ns, chat_history, conversations, printed, displayed, clicked, shown, logOutcome,
          runs, submitted>>

None == <<>>
Some(v) == <<v>>

(***************************************************************************)
(* Text primitives: str.lower, `in`, re.search with \b.                    *)
(***************************************************************************)
UpperS == "ABCDEFGHIJKLMNOPQRSTUVWXYZ"
LowerS == "abcdefghijklmnopqrstuvwxyz"
DigitS == "0123456789"

CharsOf(s) == {SubSeq(s, i, i) : i \in 1..Len(s)}

Digits == CharsOf(DigitS)

\* \w of the re module, on the ASCII text used here
WordChars == CharsOf(UpperS) \cup CharsOf(LowerS) \cup Digits \cup {"_"}

LowerMap ==
    [c \in CharsOf(UpperS) |->
        SubSeq(LowerS, CHOOSE i \in 1..26 : SubSeq(UpperS, i, i) = c,
                       CHOOSE i \in 1..26 : SubSeq(UpperS, i, i) = c)]

RECURSIVE Lower(_)
Lower(s) ==
    IF s = "" THEN ""
    ELSE LET c == SubSeq(s, 1, 1)
         IN  (IF c \in DOMAIN LowerMap THEN LowerMap[c] ELSE c)
                 \o Lower(SubSeq(s, 2, Len(s)))

\* p occurs in s at position i
At(s, p, i) == i >= 1 /\ i + Len(p) - 1 <= Len(s) /\ SubSeq(s, i, i + Len(p) - 1) = p

\* Python `p in s`, and re.search of a literal
Contains(s, p) == \E i \in 1..(Len(s) - Len(p) + 1) : SubSeq(s, i, i + Len(p) - 1) = p

IsWordAt(s, i) == i >= 1 /\ i <= Len(s) /\ SubSeq(s, i, i) \in WordChars

\* re.search(r"\bp\b", s) for a literal p that starts and ends with a word character
ContainsWord(s, p) ==
    \E i \in 1..(Len(s) - Len(p) + 1) :
        At(s, p, i) /\ ~IsWordAt(s, i - 1) /\ ~IsWordAt(s, i + Len(p))

ContainsAny(s, ps) == \E p \in ps : Contains(s, p)

(***************************************************************************)
(* calculate_interest                                                      *)
(***************************************************************************)
Rule1(text) == ContainsAny(text, {"spicy", "vegan", "cheese", "burger", "pizza", "taco", "wrap", "salad"})
Rule2(text) == Contains(text, "vegetarian") \/ Contains(text, "vegan")
Rule3(text) == Contains(text, "$") \/ ContainsWord(text, "under") \/ ContainsWord(text, "below")
Rule4(text) == ContainsAny(text, {"happy", "adventurous", "tired", "sad", "hungry", "indulgent"})
Rule5(text) == Contains(text, "?")
Rule6(text) == ContainsAny(text, {"love", "perfect", "amazing", "great", "yum", "yummy"})
Rule7(text) ==
    \/ Contains(text, "how much")
    \/ Contains(text, "price")
    \/ \E i \in 1..(Len(text) - 1) : At(text, "$", i) /\ SubSeq(text, i + 1, i + 1) \in Digits
Rule8(text) == ContainsAny(text, {"order", "add to cart", "take it", "i'll take it", "i will take it", "buy"})
Rule9(text) == ContainsWord(text, "maybe") \/ ContainsWord(text, "not sure")
Rule10(text) == Contains(text, "too expensive") \/ Contains(text, "expensive")
Rule11(text) ==
    \/ ContainsWord(text, "don't like") \/ ContainsWord(text, "dont like")
    \/ ContainsWord(text, "not for me")
    \/ ContainsWord(text, "hate")

Max(a, b) == IF a >= b THEN a ELSE b
Min(a, b) == IF a <= b THEN a ELSE b

\* a slip that turns the second `if` into an `elif` of the first
calculate_interest_elif(input) ==
    IF input = "" THEN 0
    ELSE LET text == Lower(input)
             s1  == IF Rule1(text) THEN 15 ELSE 0
             s2  == IF Rule1(text) THEN s1 ELSE IF Rule2(text) THEN s1 + 10 ELSE s1
             s3  == IF Rule3(text) THEN s2 + 5 ELSE s2
             s4  == IF Rule4(text) THEN s3 + 20 ELSE s3
             s5  == IF Rule5(text) THEN s4 + 10 ELSE s4
             s6  == IF Rule6(text) THEN s5 + 8 ELSE s5
             s7  == IF Rule7(text) THEN s6 + 25 ELSE s6
             s8  == IF Rule8(text) THEN s7 + 30 ELSE s7
             s9  == IF Rule9(text) THEN s8 - 10 ELSE s8
             s10 == IF Rule10(text) THEN s9 - 15 ELSE s9
             s11 == IF Rule11(text) THEN s10 - 25 ELSE s10
         IN  Max(0, Min(100, s11))

calculate_interest(input) ==
    IF input = "" THEN 0
    ELSE LET text == Lower(input)
             s1  == IF Rule1(text) THEN 15 ELSE 0
             s2  == IF Rule2(text) THEN s1 + 10 ELSE s1
             s3  == IF Rule3(text) THEN s2 + 5 ELSE s2
             s4  == IF Rule4(text) THEN s3 + 20 ELSE s3
             s5  == IF Rule5(text) THEN s4 + 10 ELSE s4
             s6  == IF Rule6(text) THEN s5 + 8 ELSE s5
             s7  == IF Rule7(text) THEN s6 + 25 ELSE s6
             s8  == IF Rule8(text) THEN s7 + 30 ELSE s7
             s9  == IF Rule9(text) THEN s8 - 10 ELSE s8
             s10 == IF Rule10(text) THEN s9 - 15 ELSE s9
             s11 == IF Rule11(text) THEN s10 - 25 ELSE s10
         IN  Max(0, Min(100, s11))

(***************************************************************************)
(* Inputs of the scorer: up to MaxPhrases phrases joined by blanks.        *)
(***************************************************************************)
MaxPhrases == 2

Phrases ==
    { "vegan", "Vegetarian", "thunder", "under $5", "$", "hungry", "LOVE it",
      "buy vegan pizza for $5?", "how much", "maybe", "maybes", "too expensive",
      "I hate it", "don't like", "dont like", "not for me", "I'll take it", "hi" }

RECURSIVE TextsOf(_)
TextsOf(n) ==
    IF n = 0 THEN {""}
    ELSE LET shorter == TextsOf(n - 1)
         IN  shorter \cup {IF t = "" THEN p ELSE t \o " " \o p : t \in shorter, p \in Phrases}

Texts == TextsOf(MaxPhrases)

NoIntent == [mood |-> None, budget |-> None, category |-> None, keywords |-> <<>>]

RecIdle ==
    /\ products = <<>> /\ table = <<>> /\ intent = NoIntent
    /\ recsDb = None /\ recsFb = None

SeedIdle == lastCall = None /\ prevCall = None

NothingShown == [text_input |-> FALSE, button |-> ""]

NoNames == [db |-> FALSE, ok |-> FALSE, products |-> None, FALLBACK |-> None]

AppIdle ==
    /\ pc = "off" /\ ns = NoNames
    /\ chat_history = <<>> /\ conversations = <<>> /\ printed = <<>> /\ displayed = <<>>
    /\ clicked = "" /\ shown = NothingShown /\ logOutcome = "" /\ runs = 0 /\ submitted = 0

InitInterest == user_input \in Texts /\ score = None /\ RecIdle /\ SeedIdle /\ AppIdle

CalculateInterest ==
    /\ score = None
    /\ score' = Some(calculate_interest(user_input))
    /\ UNCHANGED <<user_input, recVars, seedVars, appVars>>

NextInterest == CalculateInterest

SpecInterest == InitInterest /\ [][NextInterest]_vars

(***************************************************************************)
(* json.dumps / json.loads of a list of strings (no quotes or escapes in   *)
(* the items): ["a", "b"].                                                 *)
(***************************************************************************)
Quote == "\""

RECURSIVE JoinQuoted(_)
JoinQuoted(list) ==
    IF list = <<>> THEN ""
    ELSE Quote \o Head(list) \o Quote
            \o (IF Len(list) > 1 THEN ", " ELSE "") \o JoinQuoted(Tail(list))

json_dumps(list) == "[" \o JoinQuoted(list) \o "]"

\* the position of the first quote of text at or after i, 0 when there is none
RECURSIVE NextQuote(_, _)
NextQuote(text, i) ==
    IF i > Len(text) THEN 0
    ELSE IF SubSeq(text, i, i) = Quote THEN i
    ELSE NextQuote(text, i + 1)

RECURSIVE LoadsFrom(_, _)
LoadsFrom(text, i) ==
    LET open == NextQuote(text, i)
        close == NextQuote(text, open + 1)
    IN  IF open = 0 \/ close = 0 THEN <<>>
        ELSE <<SubSeq(text, open + 1, close - 1)>> \o LoadsFrom(text, close + 1)

json_loads(text) == LoadsFrom(text, 1)

InList(x, list) == \E i \in 1..Len(list) : list[i] = x

(***************************************************************************)
(* The products table.  A row keeps the columns recommend_products reads   *)
(* (the other ten columns are stored and never read by the code modelled). *)
(***************************************************************************)
\* the tuple populate_products_safe builds for one product dict
RowOf(p) ==
    [ product_id       |-> p.product_id,
      name             |-> p.name,
      category         |-> p.category,
      description      |-> p.description,
      ingredients      |-> json_dumps(p.ingredients),
      price            |-> p.price,
      mood_tags        |-> json_dumps(p.mood_tags),
      popularity_score |-> p.popularity_score ]

\* INSERT OR REPLACE of one row: a row with the same primary key is deleted
\* and the new row is appended with a fresh rowid
InsertOrReplace(rows, r) ==
    SelectSeq(rows, LAMBDA old : old.product_id # r.product_id) \o <<r>>

RECURSIVE ExecuteMany(_, _)
ExecuteMany(rows, batch) ==
    IF batch = <<>> THEN rows
    ELSE ExecuteMany(InsertOrReplace(rows, Head(batch)), Tail(batch))

(***************************************************************************)
(* Truthiness of the arguments (`if budget:`, `if mood:`, `if keywords:`). *)
(***************************************************************************)
TruthyNum(opt) == opt # None /\ opt[1] # 0
TruthyStr(opt) == opt # None /\ opt[1] # ""

\* `if budget:`
BudgetGiven(budget) == TruthyNum(budget)

\* SQLite's LIKE '%c%': substring, case-insensitive on ASCII
Like(value, c) == Contains(Lower(value), Lower(c))

\* SELECT * FROM products WHERE 1=1 [AND price <= ?] [AND category LIKE ?]
SelectProducts(rows, budget, category) ==
    SelectSeq(rows, LAMBDA r :
        /\ (BudgetGiven(budget) => r.price <= budget[1])
        /\ (TruthyStr(category) => Like(r.category, category[1])))

B2I(b) == IF b THEN 1 ELSE 0

\* the three += of one keyword; name, description and ingredients are already
\* lowercased (the code lowercases them again for every keyword, with the same result)
KeywordHits(name, description, ingredients, kw) ==
    B2I(Contains(name, kw))
        + B2I(Contains(description, kw))
        + B2I(\E i \in 1..Len(ingredients) : Contains(ingredients[i], kw))

RECURSIVE KeywordScore(_, _, _, _)
KeywordScore(name, description, ingredients, kws) ==
    IF kws = <<>> THEN 0
    ELSE KeywordHits(name, description, ingredients, Head(kws))
            + KeywordScore(name, description, ingredients, Tail(kws))

RECURSIVE LowerAll(_)
LowerAll(list) == IF list = <<>> THEN <<>> ELSE <<Lower(Head(list))>> \o LowerAll(Tail(list))

\* df["match_score"] of one row in recommend_products
DbMatchScore(r, mood, keywords) ==
    r.popularity_score
        + (IF TruthyStr(mood) THEN B2I(InList(mood[1], json_loads(r.mood_tags))) ELSE 0)
        + (IF keywords # <<>>
           THEN KeywordScore(Lower(r.name), Lower(r.description),
                             LowerAll(json_loads(r.ingredients)), LowerAll(keywords))
           ELSE 0)

(***************************************************************************)
(* DataFrame.sort_values("match_score", ascending=False) with the default  *)
(* kind="quicksort": the result is ordered by descending key and the order *)
(* of rows with equal keys is not specified.  SortValuesDesc is the set of *)
(* results the sort may produce.                                           *)
(***************************************************************************)
RECURSIVE Orderings(_)
Orderings(S) ==
    IF S = {} THEN {<<>>}
    ELSE UNION {{<<x>> \o o : o \in Orderings(S \ {x})} : x \in S}

RECURSIVE SortedIndexes(_, _)
SortedIndexes(df, idx) ==
    IF idx = {} THEN {<<>>}
    ELSE LET top == {i \in idx : \A j \in idx : df[i].match_score >= df[j].match_score}
         IN  {a \o b : a \in Orderings(top), b \in SortedIndexes(df, idx \ top)}

\* the same sort, ascending
SortValuesAsc(df) ==
    { [k \in 1..Len(df) |-> df[order[Len(df) + 1 - k]]] : order \in SortedIndexes(df, DOMAIN df) }

SortValuesDesc(df) ==
    { [k \in 1..Len(df) |-> df[order[k]]] : order \in SortedIndexes(df, DOMAIN df) }

HeadLimit == 10

\* df.head(n)
DfHead(df, n) == SubSeq(df, 1, Min(n, Len(df)))

\* the frame with its match_score column
RECURSIVE DbScored(_, _, _)
DbScored(df, mood, keywords) ==
    IF df = <<>> THEN <<>>
    ELSE <<[item |-> Head(df), match_score |-> DbMatchScore(Head(df), mood, keywords)]>>
            \o DbScored(Tail(df), mood, keywords)

\* FoodieBotDatabase.recommend_products: the set of frames it may return
recommend_products(rows, mood, budget, category, keywords) ==
    LET df == SelectProducts(rows, budget, category)
    IN  IF df = <<>> THEN {<<>>}
        ELSE {DfHead(sorted, HeadLimit) : sorted \in SortValuesDesc(DbScored(df, mood, keywords))}

(***************************************************************************)
(* The fallback branch of the script (FALLBACK_PRODUCTS_DF holds the       *)
(* product dicts as generated: lists, not JSON text).                      *)
(***************************************************************************)
FbMatchScore(p, mood, category, keywords) ==
    p.popularity_score
        + (IF TruthyStr(mood) THEN B2I(InList(mood[1], p.mood_tags)) ELSE 0)
        + (IF TruthyStr(category) THEN B2I(Contains(Lower(p.category), Lower(category[1]))) ELSE 0)
        + KeywordScore(Lower(p.name), Lower(p.description), LowerAll(p.ingredients), keywords)

RECURSIVE FbScored(_, _, _, _)
FbScored(df, mood, category, keywords) ==
    IF df = <<>> THEN <<>>
    ELSE <<[item |-> Head(df), match_score |-> FbMatchScore(Head(df), mood, category, keywords)]>>
            \o FbScored(Tail(df), mood, category, keywords)

fallback_recommend(frame, mood, budget, category, keywords) ==
    {DfHead(sorted, HeadLimit) : sorted \in SortValuesDesc(FbScored(frame, mood, category, keywords))}

(***************************************************************************)
(* generate_products.  The random draws are a bounded family indexed by a  *)
(* seed: Rand(seed, k, lo, hi) is the k-th draw, an integer in lo..hi.     *)
(***************************************************************************)
MaxSeed == 1

Rand(seed, k, lo, hi) == lo + ((seed * 7919 + k * 104729 + seed * k * k * 31) % (hi - lo + 1))

CategoryNames ==
    << [cat |-> "Burgers",
        names |-> <<"Spicy Fusion Dragon Burger", "Classic All-American Burger",
                    "Plant-Based Beyond Burger", "BBQ Bacon Cheeseburger">>],
       [cat |-> "Pizza",
        names |-> <<"Margherita Classica", "Meat Lovers Supreme",
                    "BBQ Chicken Pineapple", "Vegan Mediterranean">>],
       [cat |-> "Fried Chicken",
        names |-> <<"Nashville Hot Wings", "Honey Garlic Tenders",
                    "Korean Fried Chicken", "Classic Fried Chicken">>],
       [cat |-> "Tacos & Wraps",
        names |-> <<"Korean Beef Taco", "Crispy Fish Taco",
                    "Buffalo Chicken Wrap", "Veggie Hummus Wrap">>],
       [cat |-> "Desserts",
        names |-> <<"Chocolate Cake Slice", "Ice Cream Sundae", "Mini Cheesecake", "Brownie">>] >>

Digit(n) == SubSeq(DigitS, n + 1, n + 1)

\* f"FF{pid:03d}"
ProductId(pid) == "FF" \o Digit((pid \div 100) % 10) \o Digit((pid \div 10) % 10) \o Digit(pid % 10)

MoodPool == <<"comfort", "adventurous", "healthy", "indulgent">>

\* random.sample(MoodPool, k=2): two different entries, in the order drawn
SampleMoods(r) ==
    LET first == (r \div 3) + 1
        rest == SelectSeq(<<1, 2, 3, 4>>, LAMBDA i : i # first)
    IN  <<MoodPool[first], MoodPool[rest[(r % 3) + 1]]>>

\* the dict of the product numbered pid (the em dash of the description is written "-")
GeneratedProduct(seed, pid) ==
    LET c == CategoryNames[((pid - 1) \div 4) + 1]
        name == c.names[((pid - 1) % 4) + 1]
    IN  [ product_id       |-> ProductId(pid),
          name             |-> name,
          category         |-> c.cat,
          description      |-> name \o " - a delicious " \o Lower(c.cat) \o " option.",
          ingredients      |-> <<"main ingredient", "seasoning", "garnish">>,
          price            |-> Rand(seed, 3 * pid, 500, 2499),
          mood_tags        |-> SampleMoods(Rand(seed, 3 * pid + 1, 0, 11)),
          popularity_score |-> Rand(seed, 3 * pid + 2, 60, 100) ]

generate_products(seed) == [pid \in 1..20 |-> GeneratedProduct(seed, pid)]

(***************************************************************************)
(* Inputs of a recommendation: a catalog (a short list of menu items with  *)
(* distinct ids, or a generated catalog) and the four arguments.           *)
(***************************************************************************)
MaxCatalog == 3

Menu ==
    { [ product_id |-> "M1", name |-> "Spicy Fusion Dragon Burger", category |-> "Burgers",
        description |-> "A hot burger.", ingredients |-> <<"beef", "chili">>,
        price |-> 999, mood_tags |-> <<"spicy">>, popularity_score |-> 80 ],
      [ product_id |-> "M2", name |-> "Classic All-American Burger", category |-> "Burgers",
        description |-> "The classic.", ingredients |-> <<"beef", "Burger bun">>,
        price |-> 850, mood_tags |-> <<"comfort">>, popularity_score |-> 95 ],
      [ product_id |-> "M3", name |-> "Margherita Classica", category |-> "Pizza",
        description |-> "Not a burger.", ingredients |-> <<"tomato">>,
        price |-> 1200, mood_tags |-> <<"comfort", "spicy">>, popularity_score |-> 80 ],
      [ product_id |-> "M4", name |-> "Tap Water", category |-> "veggie burgers and more",
        description |-> "Free.", ingredients |-> <<>>,
        price |-> 0, mood_tags |-> <<>>, popularity_score |-> 81 ] }

Distinct(l) == \A i, j \in DOMAIN l : i # j => l[i] # l[j]

RECURSIVE ListsOf(_, _)
\* the lists of at most n different elements of S
ListsOf(S, n) ==
    IF n = 0 THEN {<<>>}
    ELSE LET shorter == ListsOf(S, n - 1)
         IN  shorter \cup {l \in {Append(k, x) : k \in shorter, x \in S} : Distinct(l)}

Catalogs == ListsOf(Menu, MaxCatalog) \cup {generate_products(seed) : seed \in 1..MaxSeed}

\* keyword lists as the caller builds them: lowercase words, repeats kept
KeywordLists == {<<>>, <<"burger">>, <<"spicy", "burger">>, <<"burger", "burger">>}

Intents ==
    [ mood : {None, Some("spicy")},
      budget : {None, Some(0), Some(1000)},
      category : {None, Some("Burgers")},
      keywords : KeywordLists ]

RECURSIVE RowsOf(_)
RowsOf(list) == IF list = <<>> THEN <<>> ELSE <<RowOf(Head(list))>> \o RowsOf(Tail(list))

InterestIdle == user_input = "" /\ score = None

\* the store holds the catalog; no recommendation has been asked for yet
InitRec ==
    /\ products \in Catalogs
    /\ table = ExecuteMany(<<>>, RowsOf(products))
    /\ intent \in Intents
    /\ recsDb = None /\ recsFb = None
    /\ InterestIdle /\ SeedIdle /\ AppIdle

\* recs = db.recommend_products(mood=..., budget=..., category=..., keywords=...)
RecommendDb ==
    /\ recsDb = None
    /\ \E recs \in recommend_products(table, intent.mood, intent.budget, intent.category, intent.keywords) :
           recsDb' = Some(recs)
    /\ UNCHANGED <<products, table, intent, recsFb, interestVars, seedVars, appVars>>

\* the else branch, on a frame built from the same product list
\* (pd.DataFrame([]) has no columns, so the frame is never empty: generate_products returns 20 dicts)
RecommendFallback ==
    /\ recsFb = None
    /\ products # <<>>
    /\ \E recs \in fallback_recommend(products, intent.mood, intent.budget, intent.category, intent.keywords) :
           recsFb' = Some(recs)
    /\ UNCHANGED <<products, table, intent, recsDb, interestVars, seedVars, appVars>>

NextRec == RecommendDb \/ RecommendFallback

SpecRec == InitRec /\ [][NextRec]_vars

(***************************************************************************)
(* populate_products_safe.  A storage error is an input of the call:       *)
(* fault = -1 when the SELECT COUNT (or building the tuples) raises,       *)
(* fault = k >= 1 when the k-th executemany raises, fault = 0 for none.    *)
(* The call returns the new table and the result dict.                     *)
(***************************************************************************)
DefaultBatchSize == 50

SeedResult(ok, n, err) == [success |-> ok, inserted |-> n, error |-> err]

\* the batches rows[i:i+batch_size] from batch number k on, committed one by one
RECURSIVE CommitBatches(_, _, _, _, _)
CommitBatches(stored, rows, batch_size, k, fault) ==
    LET first == (k - 1) * batch_size + 1
        batch == SubSeq(rows, first, Min(Len(rows), first + batch_size - 1))
    IN  IF first > Len(rows)
        THEN [table |-> stored, result |-> SeedResult(TRUE, Len(rows), None)]
        ELSE IF fault = k
        \* executemany raises: the except branch rolls the open batch back
        THEN [table |-> stored, result |-> SeedResult(FALSE, 0, Some("error"))]
        ELSE CommitBatches(ExecuteMany(stored, batch), rows, batch_size, k + 1, fault)

\* a slip that drops the `if count > 0` return
populate_always_inserts(stored, items, batch_size, fault) ==
    IF fault = -1
    THEN [table |-> stored, result |-> SeedResult(FALSE, 0, Some("error"))]
    ELSE CommitBatches(stored, RowsOf(items), batch_size, 1, fault)

populate_products_safe(stored, items, batch_size, fault) ==
    IF fault = -1
    THEN [table |-> stored, result |-> SeedResult(FALSE, 0, Some("error"))]
    ELSE IF Len(stored) > 0
    THEN [table |-> stored, result |-> SeedResult(TRUE, 0, None)]
    ELSE CommitBatches(stored, RowsOf(items), batch_size, 1, fault)

(***************************************************************************)
(* Seeding calls on one store: lists of at most MaxSeedItems dicts, in     *)
(* which a product_id may repeat.                                          *)
(***************************************************************************)
MaxSeedItems == 2

SeedPool ==
    { [ product_id |-> "M1", name |-> "Dragon Burger", category |-> "Burgers",
        description |-> "Hot.", ingredients |-> <<"beef">>,
        price |-> 999, mood_tags |-> <<"spicy">>, popularity_score |-> 80 ],
      [ product_id |-> "M2", name |-> "Classic Burger", category |-> "Burgers",
        description |-> "Plain.", ingredients |-> <<>>,
        price |-> 850, mood_tags |-> <<"comfort">>, popularity_score |-> 95 ] }

RECURSIVE SeedLists(_)
SeedLists(n) ==
    IF n = 0 THEN {<<>>}
    ELSE SeedLists(n - 1) \cup {Append(l, x) : l \in SeedLists(n - 1), x \in SeedPool}

InitSeed ==
    /\ table = <<>>
    /\ lastCall = None /\ prevCall = None
    /\ products = <<>> /\ intent = NoIntent /\ recsDb = None /\ recsFb = None
    /\ InterestIdle /\ AppIdle

PopulateProductsSafe ==
    \E items \in SeedLists(MaxSeedItems), batch_size \in {1, DefaultBatchSize},
       fault \in -1..MaxSeedItems :
        LET out == populate_products_safe(table, items, batch_size, fault)
        IN  /\ table' = out.table
            /\ lastCall' = Some([items |-> items, before |-> table, result |-> out.result])
            /\ prevCall' = (IF lastCall = None THEN None
                             ELSE Some([items |-> lastCall[1].items, result |-> lastCall[1].result]))
            /\ UNCHANGED <<products, intent, recsDb, recsFb, interestVars, appVars>>

NextSeed == PopulateProductsSafe

SpecSeed == InitSeed /\ [][NextSeed]_vars

(***************************************************************************)
(* The turn handling of the script: intent extraction.                     *)
(***************************************************************************)
\* re.findall(r"\w+", text)
RECURSIVE WordsFrom(_, _, _)
WordsFrom(text, i, cur) ==
    LET done == IF cur = "" THEN <<>> ELSE <<cur>>
    IN  IF i > Len(text) THEN done
        ELSE IF SubSeq(text, i, i) \in WordChars
        THEN WordsFrom(text, i + 1, cur \o SubSeq(text, i, i))
        ELSE done \o WordsFrom(text, i + 1, "")

StopWords == {"i", "want", "some", "a", "an", "the", "please", "order"}

ExtractKeywords(text) == SelectSeq(WordsFrom(text, 1, ""), LAMBDA w : w \notin StopWords)

DetectCategory(text) ==
    IF Contains(text, "burger") THEN Some("Burgers")
    ELSE IF Contains(text, "pizza") THEN Some("Pizza")
    ELSE IF Contains(text, "chicken") THEN Some("Fried Chicken")
    ELSE None

DetectMood(text) == IF Contains(text, "spicy") THEN Some("spicy") ELSE None

IsDigitAt(text, i) == i >= 1 /\ i <= Len(text) /\ SubSeq(text, i, i) \in Digits

RECURSIVE SkipSpaces(_, _)
SkipSpaces(text, i) ==
    IF i <= Len(text) /\ SubSeq(text, i, i) = " " THEN SkipSpaces(text, i + 1) ELSE i

RECURSIVE DigitsEnd(_, _)
\* the position after the run of digits that starts at i
DigitsEnd(text, i) == IF IsDigitAt(text, i) THEN DigitsEnd(text, i + 1) ELSE i

DigitValue(c) == CHOOSE d \in 0..9 : Digit(d) = c

RECURSIVE ParseInt(_)
ParseInt(ds) ==
    IF ds = "" THEN 0
    ELSE 10 * ParseInt(SubSeq(ds, 1, Len(ds) - 1)) + DigitValue(SubSeq(ds, Len(ds), Len(ds)))

\* where the digits of under\s*\$?(\d+) start when the pattern matches at i, else 0
UnderDigitsAt(text, i) ==
    IF ~At(text, "under", i) THEN 0
    ELSE LET j == SkipSpaces(text, i + 5)
             k == IF At(text, "$", j) THEN j + 1 ELSE j
         IN  IF IsDigitAt(text, k) THEN k ELSE 0

\* budget = float(budget_match.group(1)) if budget_match else None, in cents
DetectBudget(text) ==
    LET hits == {i \in 1..Len(text) : UnderDigitsAt(text, i) # 0}
    IN  IF hits = {} THEN None
        ELSE LET i == CHOOSE h \in hits : \A g \in hits : h <= g
                 k == UnderDigitsAt(text, i)
             IN  Some(100 * ParseInt(SubSeq(text, k, DigitsEnd(text, k) - 1)))

ExtractIntent(input) ==
    LET text == Lower(input)
    IN  [ mood     |-> DetectMood(text),
          budget   |-> DetectBudget(text),
          category |-> DetectCategory(text),
          keywords |-> ExtractKeywords(text) ]

\* str(n) for 0 <= n < 100
IntStr(n) == IF n < 10 THEN Digit(n) ELSE Digit(n \div 10) \o Digit(n % 10)

BotMessage(recs) ==
    IF recs # <<>> THEN "I found " \o IntStr(Len(recs)) \o " good matches for you!"
    ELSE "Hmm, I couldn't find a perfect match. Try rephrasing."

(***************************************************************************)
(* log_conversation: the insert either commits a row or raises (fault).    *)
(* Returns the table, the lines printed and whether an exception leaves    *)
(* the method.  The timestamp and the session id are not modelled.         *)
(***************************************************************************)
\* a slip that drops the try/except
log_conversation_no_try(rows, user_message, bot_response, interest, recs, fault) ==
    IF fault
    THEN [conversations |-> rows, printed |-> <<>>, raised |-> TRUE]
    ELSE [conversations |->
              Append(rows, [user_message |-> user_message, bot_response |-> bot_response,
                            interest_score |-> interest, recommended_products |-> recs]),
          printed |-> <<>>, raised |-> FALSE]

log_conversation(rows, user_message, bot_response, interest, recs, fault) ==
    IF fault
    THEN [conversations |-> rows, printed |-> <<"log_conversation error:">>, raised |-> FALSE]
    ELSE [conversations |->
              Append(rows, [user_message |-> user_message, bot_response |-> bot_response,
                            interest_score |-> interest, recommended_products |-> recs]),
          printed |-> <<>>, raised |-> FALSE]

(***************************************************************************)
(* The script.  Streamlit runs it top to bottom on page load and again on  *)
(* every widget event, each time in a fresh namespace; session_state, the  *)
(* value of the text box and the database file outlive a run.  A session   *)
(* is one page load.                                                       *)
(***************************************************************************)
MaxRuns == 2

AppTexts == {"spicy burger under $10", "Pizza under $0"}

Idle == pc \in {"done", "crashed at line 274", "crashed at line 322", "crashed at line 364"}

InitApp ==
    /\ pc = "init" /\ ns = NoNames
    /\ user_input = "" /\ table = <<>>
    /\ chat_history = <<>> /\ conversations = <<>> /\ printed = <<>> /\ displayed = <<>>
    /\ clicked = "" /\ shown = NothingShown /\ logOutcome = "" /\ runs = 0 /\ submitted = 0
    /\ score = None /\ products = <<>> /\ intent = NoIntent /\ recsDb = None /\ recsFb = None
    /\ SeedIdle

StartRun ==
    /\ pc' = "init" /\ ns' = NoNames /\ logOutcome' = "" /\ runs' = runs + 1
    /\ score' = None /\ intent' = NoIntent /\ recsDb' = None /\ recsFb' = None
    /\ UNCHANGED <<table, products, chat_history, conversations, printed, displayed, shown, seedVars>>

\* the user enters another text in the box
SubmitMessage ==
    /\ Idle /\ runs < MaxRuns /\ shown.text_input
    /\ \E t \in AppTexts :
           /\ t # user_input
           /\ user_input' = t
    /\ submitted' = submitted + 1
    /\ clicked' = ""
    /\ StartRun

\* the user clicks the sidebar button the last run rendered
ClickButton ==
    /\ Idle /\ runs < MaxRuns /\ shown.button # ""
    /\ clicked' = shown.button
    /\ UNCHANGED <<user_input, submitted>>
    /\ StartRun

\* what no step of a run changes
RunFrame == <<user_input, products, seedVars, clicked, runs, submitted>>

\* lines 259-271: open the database, generate the products, seed
InitializeDb ==
    /\ pc = "init"
    /\ pc' = "fallback_df"
    /\ \/ \* FoodieBotDatabase() raises: the except branch leaves db = None
          /\ ns' = [ns EXCEPT !.db = FALSE]
          /\ UNCHANGED table
       \/ \E seed \in 1..MaxSeed, fault \in -1..1 :
              LET generated == generate_products(seed)
                  pop_res == populate_products_safe(table, generated, DefaultBatchSize, fault)
              IN  /\ table' = pop_res.table
                  /\ ns' = [ns EXCEPT !.db = TRUE, !.ok = pop_res.result.success,
                                      !.products = Some(generated)]
    /\ UNCHANGED <<chat_history, conversations, printed, displayed, shown, logOutcome,
                   score, intent, recsDb, recsFb, RunFrame>>

\* line 274: FALLBACK_PRODUCTS_DF = pd.DataFrame([p for p in products]) if db is None else None
BuildFallbackFrame ==
    /\ pc = "fallback_df"
    /\ IF ns.db
       THEN pc' = "turn" /\ ns' = [ns EXCEPT !.FALLBACK = None]
       ELSE IF ns.products = None
       THEN pc' = "crashed at line 274" /\ ns' = ns      \* NameError: products
       ELSE pc' = "turn" /\ ns' = [ns EXCEPT !.FALLBACK = ns.products]
    /\ UNCHANGED <<table, chat_history, conversations, printed, displayed, shown, logOutcome,
                   score, intent, recsDb, recsFb, RunFrame>>

\* lines 279-281: the text box is rendered; a non-empty text is scored
ScoreInput ==
    /\ pc = "turn"
    /\ shown' = [text_input |-> TRUE, button |-> ""]
    /\ IF user_input = ""
       THEN pc' = "display" /\ score' = score
       ELSE pc' = "extract" /\ score' = Some(calculate_interest(user_input))
    /\ UNCHANGED <<table, ns, chat_history, conversations, printed, displayed, logOutcome,
                   intent, recsDb, recsFb, RunFrame>>

\* lines 282-299
ExtractTurnIntent ==
    /\ pc = "extract"
    /\ intent' = ExtractIntent(user_input)
    /\ pc' = "recommend"
    /\ UNCHANGED <<table, ns, chat_history, conversations, printed, displayed, shown, logOutcome,
                   score, recsDb, recsFb, RunFrame>>

\* lines 302-316
RecommendTurn ==
    /\ pc = "recommend"
    /\ IF ns.db
       THEN /\ \E recs \in recommend_products(table, intent.mood, intent.budget,
                                              intent.category, intent.keywords) :
                   recsDb' = Some(recs)
            /\ UNCHANGED recsFb
       ELSE /\ \E recs \in fallback_recommend(ns.FALLBACK[1], intent.mood, intent.budget,
                                              intent.category, intent.keywords) :
                   recsFb' = Some(recs)
            /\ UNCHANGED recsDb
    /\ pc' = "record"
    /\ UNCHANGED <<table, ns, chat_history, conversations, printed, displayed, shown, logOutcome,
                   score, intent, RunFrame>>

\* the frame the turn computed
TurnRecs == IF ns.db THEN recsDb[1] ELSE recsFb[1]

\* lines 318-322: the entry is appended to the chat history, then the turn is logged
RecordTurn ==
    /\ pc = "record"
    /\ LET bot_msg == BotMessage(TurnRecs)
       IN  /\ chat_history' = Append(chat_history,
                  [user |-> user_input, bot |-> bot_msg, score |-> score[1], recs |-> TurnRecs])
           /\ IF ns.db
              THEN \E fault \in BOOLEAN :
                       LET out == log_conversation(conversations, user_input, bot_msg,
                                                   score[1], TurnRecs, fault)
                       IN  /\ conversations' = out.conversations
                           /\ printed' = printed \o out.printed
                           /\ logOutcome' = IF fault THEN "failed" ELSE "ok"
                           /\ pc' = IF out.raised THEN "crashed at line 322" ELSE "display"
              ELSE /\ UNCHANGED <<conversations, printed, logOutcome>>
                   /\ pc' = "display"
    /\ UNCHANGED <<table, ns, displayed, shown, score, intent, recsDb, recsFb, RunFrame>>

\* lines 327-347: the chat history (and the chart of its scores) is rendered
Display ==
    /\ pc = "display"
    /\ displayed' = chat_history
    /\ pc' = "sidebar"
    /\ UNCHANGED <<table, ns, chat_history, conversations, printed, shown, logOutcome,
                   score, intent, recsDb, recsFb, RunFrame>>

\* lines 352-364: st.button is True in the run its own click started
Sidebar ==
    /\ pc = "sidebar"
    /\ LET label == IF ns.db /\ ns.ok THEN "db" ELSE "fallback"
           pressed == clicked = label
       IN  /\ shown' = [shown EXCEPT !.button = label]
           /\ IF label = "fallback" /\ pressed /\ ns.FALLBACK = None
              THEN pc' = "crashed at line 364"      \* AttributeError: None has no head
              ELSE pc' = "done"                     \* the sample is rendered, nothing is stored
    /\ UNCHANGED <<table, ns, chat_history, conversations, printed, displayed, logOutcome,
                   score, intent, recsDb, recsFb, RunFrame>>

NextApp ==
    \/ SubmitMessage \/ ClickButton
    \/ InitializeDb \/ BuildFallbackFrame
    \/ ScoreInput \/ ExtractTurnIntent \/ RecommendTurn \/ RecordTurn
    \/ Display \/ Sidebar

SpecApp == InitApp /\ [][NextApp]_vars

(***************************************************************************)
(*                              The claims                                 *)
(***************************************************************************)

\* the weights of the eleven rules, in the order of the code
InterestWeights == <<15, 10, 5, 20, 10, 8, 25, 30, -10, -15, -25>>

RuleFires(k, text) ==
    CASE k = 1 -> Rule1(text) [] k = 2 -> Rule2(text) [] k = 3 -> Rule3(text)
      [] k = 4 -> Rule4(text) [] k = 5 -> Rule5(text) [] k = 6 -> Rule6(text)
      [] k = 7 -> Rule7(text) [] k = 8 -> Rule8(text) [] k = 9 -> Rule9(text)
      [] k = 10 -> Rule10(text) [] k = 11 -> Rule11(text)

RECURSIVE RuleSum(_, _)
RuleSum(text, k) ==
    IF k = 0 THEN 0
    ELSE RuleSum(text, k - 1) + (IF RuleFires(k, text) THEN InterestWeights[k] ELSE 0)

\* C5: calculate_interest returns the sum of the weights of all eleven rules
\* that match the lowercased text, clamped to [0,100]; the result is an integer
\* in 0..100 and is 0 for the empty text.
C5_InterestIsClampedRuleSum ==
    score # None =>
        LET raw == RuleSum(Lower(user_input), 11)
        IN  /\ score[1] \in 0..100
            /\ score[1] = (IF raw < 0 THEN 0 ELSE IF raw > 100 THEN 100 ELSE raw)
            /\ (user_input = "" => score[1] = 0)

\* a text on which several rules fire and the raw sum exceeds 100
C5_Witness ==
    /\ score = Some(100)
    /\ RuleSum(Lower(user_input), 11) > 100
    /\ RuleFires(1, Lower(user_input)) /\ RuleFires(2, Lower(user_input))

\* C1: when a budget is set (0 included), every item recommend_products
\* returns has price <= budget.
C1_BudgetRespected ==
    (recsDb # None /\ intent.budget # None) =>
        \A k \in 1..Len(recsDb[1]) : recsDb[1][k].item.price <= intent.budget[1]

IdScores(recs) == {<<recs[k].item.product_id, recs[k].match_score>> : k \in 1..Len(recs)}

\* C3: on the same catalog snapshot and the same intent, the database path and
\* the fallback path return the same items with the same match_score (the claim
\* also asserts the same order).
C3_PathsAgree ==
    (recsDb # None /\ recsFb # None) => IdScores(recsDb[1]) = IdScores(recsFb[1])

\* the match_score the claim describes, for a stored row
ClaimedScore(r, i) ==
    r.popularity_score
        + B2I(i.mood # None /\ InList(i.mood[1], json_loads(r.mood_tags)))
        + B2I(i.category # None /\ Contains(Lower(r.category), Lower(i.category[1])))
        + KeywordScore(Lower(r.name), Lower(r.description),
                       LowerAll(json_loads(r.ingredients)), i.keywords)

\* C6: every item recommend_products returns carries match_score =
\* popularity_score + mood bonus + category bonus + keyword hits.
C6_ScoreFormula ==
    recsDb # None =>
        \A k \in 1..Len(recsDb[1]) :
            recsDb[1][k].match_score = ClaimedScore(recsDb[1][k].item, intent)

\* the scores of the candidates of each path
DbCandidates ==
    DbScored(SelectProducts(table, intent.budget, intent.category), intent.mood, intent.keywords)

FbCandidates == FbScored(products, intent.mood, intent.category, intent.keywords)

\* recs is best-first, holds at most 10 items, and the candidates left out
\* (n candidates with the given scores) score no higher than any item kept
BestFirstTruncated(recs, candidates) ==
    /\ Len(recs) = Min(10, Len(candidates))
    /\ \A a \in 1..Len(recs) : \E k \in 1..Len(candidates) : candidates[k] = recs[a]
    /\ \A a, b \in 1..Len(recs) :
           recs[a].match_score > recs[b].match_score => a < b
    /\ \A k \in 1..Len(candidates) :
           (\A a \in 1..Len(recs) : recs[a] # candidates[k])
               => \A a \in 1..Len(recs) : candidates[k].match_score <= recs[a].match_score

\* C7: the result of either path is ordered best-first and truncated to 10:
\* a strictly higher match_score comes earlier, and no omitted candidate has a
\* strictly higher match_score than a returned one.
C7_BestFirstTruncated ==
    /\ recsDb # None => BestFirstTruncated(recsDb[1], DbCandidates)
    /\ recsFb # None => BestFirstTruncated(recsFb[1], FbCandidates)

\* twenty candidates with different scores, ten of them returned
C7_Witness ==
    /\ recsDb # None /\ Len(recsDb[1]) = 10 /\ Len(table) = 20
    /\ recsDb[1][1].match_score > recsDb[1][10].match_score
    /\ \E k \in 1..20 : table[k].popularity_score + 6 < recsDb[1][10].match_score
    /\ intent.keywords # <<>>

RowIndex(rows, id) == CHOOSE k \in 1..Len(rows) : rows[k].product_id = id

\* C8: items with equal match_score appear in catalog iteration order.
C8_TiesInCatalogOrder ==
    recsDb # None =>
        \A a, b \in 1..Len(recsDb[1]) :
            (a < b /\ recsDb[1][a].match_score = recsDb[1][b].match_score)
                => RowIndex(table, recsDb[1][a].item.product_id)
                       < RowIndex(table, recsDb[1][b].item.product_id)

StorageErrorInRun == pc # "init" /\ (~ns.db \/ ~ns.ok)

Crashed == pc \in {"crashed at line 274", "crashed at line 322", "crashed at line 364"}

\* C2: after a storage error during initialization (the database cannot be
\* opened, or populate_products_safe returns success = false) the run does not
\* abort, and a user turn is answered from the in-memory generated catalog.
C2_StorageErrorNotFatal ==
    StorageErrorInRun =>
        /\ ~Crashed
        /\ (pc = "record" => recsFb # None)

\* C9: when the insert of log_conversation fails, the failure is caught and
\* printed, no exception ends the turn, and the turn's response and
\* recommendations are the last entry of chat_history and are displayed.
C9_LogFailureNotFatal ==
    logOutcome = "failed" =>
        /\ pc \in {"display", "sidebar", "done", "crashed at line 364"}
        /\ printed # <<>> /\ printed[Len(printed)] = "log_conversation error:"
        /\ chat_history # <<>>
        /\ chat_history[Len(chat_history)] =
               [user |-> user_input, bot |-> BotMessage(TurnRecs), score |-> score[1],
                recs |-> TurnRecs]
        /\ (pc # "display" => displayed = chat_history)

\* a run whose insert failed, with recommendations, rendered to the end
C9_Witness ==
    /\ logOutcome = "failed" /\ pc = "done"
    /\ displayed = chat_history /\ chat_history # <<>>
    /\ chat_history[Len(chat_history)].recs # <<>>
    /\ Len(conversations) < Len(chat_history)

\* C10: each submitted message adds exactly one entry to chat_history and at
\* most one row to the conversations table (so neither ever holds more entries
\* than messages were submitted).
C10_OneEntryPerMessage ==
    /\ Len(chat_history) <= submitted
    /\ Len(conversations) <= submitted
====
